---- MODULE Spec2Model ----
(***************************************************************************)
(* A model of the sentinel agent (legacy_python_agent/agent/sentinel):     *)
(* the rotation-aware log tailer and watcher, the rule engine, the agent's *)
(* main loop with its shutdown, and the IPC server.                        *)
(*                                                                         *)
(* Each subsystem has its own next-state relation over its own variables   *)
(* (NextTail, NextRule, NextAgent, NextIPC) and its own specification; the *)
(* variables of the other subsystems stay unchanged.                       *)
(***************************************************************************)
EXTENDS Integers, Sequences, FiniteSets, TLC

\* ------------------------------------------------------------------------
\* Bounds of the model
\* ------------------------------------------------------------------------
MaxAppends == 2
MaxFsOps == 2
MaxEvals == 4
MaxTime == 30
MaxEvents == 2
MaxSends == 2
MaxStamp == 2
MaxStoreOps == 3
MaxParts == 3

\* ------------------------------------------------------------------------
\* Text: a string is a sequence of one-character strings
\* ------------------------------------------------------------------------
NL == "\n"

Whitespace == {" ", NL}

\* The lines an external writer appends in one write, each ending in NL:
\* a plain line, a blank line, and a line with leading whitespace.
AtomicLines == { <<"a", NL>>, <<NL>>, <<" ", "b", NL>> }

\* A write that does not end in NL (a partial flush).
Fragments == { <<"c">> }

Paths == {"p1", "p2"}

\* Inode 1 exists initially; every rotation or creation takes a fresh one.
Inodes == 1..(MaxFsOps + 1)

RECURSIVE LStrip(_)
LStrip(s) == IF s # <<>> /\ Head(s) \in Whitespace THEN LStrip(Tail(s)) ELSE s

RECURSIVE RStrip(_)
RStrip(s) ==
    IF s # <<>> /\ s[Len(s)] \in Whitespace
    THEN RStrip(SubSeq(s, 1, Len(s) - 1))
    ELSE s

\* str.strip(): leading and trailing whitespace removed.
Strip(s) == RStrip(LStrip(s))

\* The line without its terminating newline.
Chomp(s) == IF s # <<>> /\ s[Len(s)] = NL THEN SubSeq(s, 1, Len(s) - 1) ELSE s

HasNL(s) == \E i \in 1..Len(s) : s[i] = NL

FirstNL(s) == CHOOSE i \in 1..Len(s) : s[i] = NL /\ \A j \in 1..(i - 1) : s[j] # NL

VARIABLES
    \* --- the file system, as the tailers see it
    disk,        \* inode -> content
    dirent,      \* path -> inode, 0 when the path does not exist
    nextIno,     \* next unused inode number
    \* --- LogWatcher and its FileTailers
    tailers,     \* path -> tailer record, for the registered paths
    order,       \* the registered paths in registration order (dict order)
    w_pc,        \* "new" | "enter" | "loop" | "reopen" | "sleep" | "raised"
    w_idx,       \* index in order of the tailer being read in this pass
    data_found,
    emitted,     \* path -> the contents of the LogEvents yielded so far
    \* --- history of the external writers
    written,     \* path -> the atomic lines appended since the tailer opened
    opened,      \* path -> the tailer has opened the file at least once
    stale,       \* path -> the file changed since the tailer last drained it
    atomicOnly,  \* path -> every append since the open ended in NL
    epoch,       \* path -> the last rotation or truncation that found the tailer at EOF
    seenSmall,   \* path -> a read reached EOF with the file smaller than the recorded offset
    nAppends,    \* appends so far
    nFsOps,      \* rotations, removals, creations and truncations so far
    polled,      \* history: the paths whose tailer was read in this pass, or in
                 \*   the last one until the next begins
    produced,    \* history: an event was yielded in that pass
    lastAdd,     \* history: the last add_path call, the handle of the tailer it
                 \*   found, and the number of calls so far modulo 2
    \* --- RuleEngine
    rules,       \* RuleEngine.rules, in load order
    r_state,     \* RuleEngine.state, the sliding-window state
    r_loaded,    \* load_rules has run
    now,         \* the clock, in seconds
    lastResult,  \* what the last evaluate returned
    lastEvent,   \* history: the event the last evaluate was called with
    matchLog,    \* history: one entry per rule match, in order
    nEvals,      \* evaluate calls so far
    \* --- SentinelAgent
    a_pc,        \* where run() is: "start" | "ipc_start" | "watching" | "saving"
                 \*   | "finally" | "done" | "crashed"
    running,     \* SentinelAgent._running
    db,          \* ThreatStore._db: "none" | "open" | "closed"
    stored,      \* the rows of the threats table, in rowid order
    sd,          \* caller -> where its shutdown() is: "idle" | "run" | "ipc_wait"
                 \*   | "db_wait" | "done" | "error"
    pending,     \* lines appended to tailed files and not yet yielded
    aw_sleep,    \* LogWatcher.watch is in its sleep
    inflight,    \* the id of the Threat save_threat is saving, or None
    signalled,   \* history: a signal was delivered
    startupFailed, \* history: initialize raised
    raised,      \* run() leaves its loop with an exception
    nEvents,     \* lines appended so far
    \* --- IPCServer
    ipc_srv,     \* IPCServer.server: "none" | "listening" | "closed"
    sock,        \* the socket file exists
    conns,       \* connection -> [state, inbox, outbox, eof]
    ipcLog,      \* history: the connections accepted and the lines served
    nSends,      \* lines sent so far
    \* --- ThreatStore
    actions,     \* the rows of the actions table, in rowid order
    st_last,     \* history: the last call of the store and what it returned
    nStoreOps,   \* calls of the store so far
    \* --- DetectionPipeline
    gp_path,     \* history: the path of the last _get_parser call
    gp_parser    \* history: the parser it returned, None before the first call

tailVars == <<disk, dirent, nextIno, tailers, order, w_pc, w_idx, data_found,
              emitted, written, opened, stale, atomicOnly, epoch,
              seenSmall, nAppends, nFsOps, lastAdd, polled, produced>>

ruleVars == <<rules, r_state, r_loaded, now, lastResult, lastEvent, matchLog,
              nEvals>>

agentVars == <<a_pc, running, db, stored, sd, pending, aw_sleep, inflight,
               signalled, startupFailed, raised, nEvents>>

srvVars == <<ipc_srv, sock>>

connVars == <<conns, ipcLog, nSends>>

storeVars == <<actions, st_last, nStoreOps>>

pipeVars == <<gp_path, gp_parser>>

vars == <<tailVars, ruleVars, agentVars, srvVars, connVars, storeVars, pipeVars>>

\* ------------------------------------------------------------------------
\* FileTailer
\* ------------------------------------------------------------------------

\* FileTailer.__init__: no handle, no inode, offset 0.  buf is the text
\* layer's read-ahead buffer of the handle, pos the handle's file position.
\* fd is "none" (None), "open", or "closed": a file object that was closed,
\* which Python takes as true like an open one.
NewTailer == [fd |-> "none", fdIno |-> 0, pos |-> 0, buf |-> <<>>,
              inode |-> 0, offset |-> 0, start_at_end |-> TRUE]

\* FileTailer.open: a missing path leaves the tailer as it is; otherwise the
\* handle is opened, the inode recorded, and the position set to the end of
\* the file (start_at_end) or to its start.
TailerOpen(t, p) ==
    IF dirent[p] = 0
    THEN t
    ELSE LET size == Len(disk[dirent[p]])
             at == IF t.start_at_end THEN size ELSE 0
         IN [t EXCEPT !.fd = "open", !.fdIno = dirent[p], !.buf = <<>>,
                      !.inode = dirent[p], !.pos = at, !.offset = at]

\* The handle reads what lies between its position and the end of its file
\* into the buffer; a position at or past the end reads nothing.
FillBuf(t) ==
    LET data == disk[t.fdIno]
    IN IF t.pos < Len(data)
       THEN [t EXCEPT !.buf = t.buf \o SubSeq(data, t.pos + 1, Len(data)),
                      !.pos = Len(data)]
       ELSE t

\* self._fd.readline(): the next line up to and including its newline, or
\* what is left before EOF, or the empty string at EOF.
ReadLine(t) ==
    LET t1 == IF HasNL(t.buf) THEN t ELSE FillBuf(t)
        n == IF HasNL(t1.buf) THEN FirstNL(t1.buf) ELSE Len(t1.buf)
    IN [line |-> SubSeq(t1.buf, 1, n),
        t |-> [t1 EXCEPT !.buf = SubSeq(t1.buf, n + 1, Len(t1.buf))]]

\* What FileTailer.read yields for a line read: the stripped line, for a
\* terminated line and for a non-empty fragment alike.
Yielded(line) == Strip(line)

\* The EOF branch of FileTailer.read: "rotated" when the path's inode is not
\* the recorded one, "missing" when stat raises FileNotFoundError, else "same".
AtEOF(t, p) ==
    IF dirent[p] = 0 THEN "missing"
    ELSE IF dirent[p] # t.inode THEN "rotated"
    ELSE "same"

\* The handle is at the end of its file with nothing buffered.
Drained(t) == t.fd = "open" /\ t.buf = <<>> /\ t.pos >= Len(disk[t.fdIno])

\* An inode that no path names and no handle holds is freed.
Reclaim(d, dir, ts) ==
    [i \in Inodes |->
        IF (\E p \in Paths : dir[p] = i)
           \/ (\E p \in DOMAIN ts : ts[p].fd = "open" /\ ts[p].fdIno = i)
        THEN d[i] ELSE <<>>]

\* ------------------------------------------------------------------------
\* LogWatcher
\* ------------------------------------------------------------------------

\* An add_path that puts a new tailer in the place of the one it finds.
Registered_Replace(ts, p) ==
    [q \in DOMAIN ts \cup {p} |-> IF q = p THEN NewTailer ELSE ts[q]]

\* The tailers after add_path(p): a new tailer for a path that has none,
\* the tailers as they are for a path that has one.
Registered(ts, p) ==
    IF p \in DOMAIN ts THEN ts
    ELSE [q \in DOMAIN ts \cup {p} |-> IF q = p THEN NewTailer ELSE ts[q]]

NoAdd == [path |-> "", found |-> "absent", calls |-> 0]

\* LogWatcher.add_path.  SentinelAgent.run calls it before watch() starts;
\* a later call, made while watch() sleeps between two passes, is modelled
\* for the paths that have a tailer.
AddPath(p) ==
    /\ w_pc = "new" \/ (w_pc = "sleep" /\ p \in DOMAIN tailers)
    /\ tailers' = Registered(tailers, p)
    /\ order' = IF p \in DOMAIN tailers THEN order ELSE Append(order, p)
    /\ lastAdd' = [path |-> p,
                   found |-> IF p \in DOMAIN tailers THEN tailers[p].fd ELSE "absent",
                   calls |-> 1 - lastAdd.calls]
    /\ UNCHANGED <<polled, produced>>
    /\ UNCHANGED <<disk, dirent, nextIno, w_pc, w_idx, data_found, emitted,
                   written, opened, stale, atomicOnly, epoch,
                   seenSmall, nAppends, nFsOps>>
    /\ UNCHANGED <<ruleVars, agentVars, srvVars, connVars, storeVars, pipeVars>>

\* LogWatcher.watch, before its loop: every tailer is opened.
WatchInit ==
    /\ w_pc = "new"
    /\ tailers' = [p \in DOMAIN tailers |-> TailerOpen(tailers[p], p)]
    /\ opened' = [p \in Paths |-> p \in DOMAIN tailers /\ dirent[p] # 0]
    /\ w_pc' = IF order = <<>> THEN "sleep" ELSE "enter"
    /\ w_idx' = 1
    /\ data_found' = FALSE
    /\ UNCHANGED <<disk, dirent, nextIno, order, emitted, written, stale,
                   atomicOnly, epoch, seenSmall, nAppends, nFsOps>>
    /\ UNCHANGED <<lastAdd, polled, produced>>
    /\ UNCHANGED <<ruleVars, agentVars, srvVars, connVars, storeVars, pipeVars>>

\* The end of one tailer's read in a pass: on to the next tailer, or, after
\* the last one, to the next pass, sleeping first when no tailer had data.
AfterRead(found) ==
    IF w_idx < Len(order)
    THEN /\ w_idx' = w_idx + 1
         /\ w_pc' = "enter"
         /\ data_found' = found
    ELSE /\ w_idx' = 1
         /\ w_pc' = IF found THEN "enter" ELSE "sleep"
         /\ data_found' = FALSE

\* FileTailer.read up to its loop: a tailer without a handle tries to open,
\* and returns at once when it still has none.
ReadEnter ==
    /\ w_pc = "enter"
    /\ LET p == order[w_idx]
           t == tailers[p]
           t1 == IF t.fd = "none" THEN TailerOpen(t, p) ELSE t
       IN /\ tailers' = [tailers EXCEPT ![p] = t1]
          /\ opened' = [opened EXCEPT ![p] = @ \/ t1.fd = "open"]
          /\ IF t1.fd = "none"
             THEN AfterRead(data_found)
             ELSE /\ w_pc' = "loop"
                  /\ UNCHANGED <<w_idx, data_found>>
    /\ UNCHANGED <<disk, dirent, nextIno, order, emitted, written, stale,
                   atomicOnly, epoch, seenSmall, nAppends, nFsOps>>
    /\ polled' = IF w_idx = 1 THEN <<order[w_idx]>> ELSE Append(polled, order[w_idx])
    /\ produced' = (w_idx # 1 /\ produced)
    /\ UNCHANGED lastAdd
    /\ UNCHANGED <<ruleVars, agentVars, srvVars, connVars, storeVars, pipeVars>>

\* A watcher that hands a new event over ahead of the earlier ones.
Deliver_Front(events, content) ==
    IF content # <<>> THEN <<content>> \o events ELSE events

\* LogWatcher.watch with a line that a tailer yields: a LogEvent follows
\* the events yielded so far, unless the line is empty.
Deliver(events, content) ==
    IF content # <<>> THEN Append(events, content) ELSE events

\* One iteration of the loop of FileTailer.read, with what LogWatcher.watch
\* does with the line it yields.  readline on a handle that was closed
\* raises ValueError, which leaves read, watch and run.  At EOF with another
\* inode at the path the handle is closed; open() follows as a step of its
\* own, since the path can change between the stat and the open.
ReadIter ==
    /\ w_pc = "loop"
    /\ LET p == order[w_idx]
       IN IF tailers[p].fd = "closed"
          THEN /\ w_pc' = "raised"
               /\ UNCHANGED <<disk, tailers, emitted, w_idx, data_found, stale,
                              seenSmall>>
          ELSE LET r == ReadLine(tailers[p])
                   content == Yielded(r.line)
                   eof == AtEOF(r.t, p)
               IN /\ IF r.line # <<>>
                     THEN \* a line: yielded; the watcher makes an event of it
                          /\ tailers' = [tailers EXCEPT ![p] = r.t]
                          /\ emitted' = [emitted EXCEPT ![p] = Deliver(@, content)]
                          /\ data_found' = (data_found \/ content # <<>>)
                          /\ UNCHANGED <<disk, w_pc, w_idx, stale>>
                     ELSE IF eof = "rotated"
                     THEN \* EOF and another inode at the path: close, then open
                          /\ tailers' = [tailers EXCEPT ![p] =
                                            [r.t EXCEPT !.fd = "closed"]]
                          /\ disk' = Reclaim(disk, dirent, tailers')
                          /\ w_pc' = "reopen"
                          /\ UNCHANGED <<emitted, w_idx, data_found, stale>>
                     ELSE \* EOF, same inode or no file: no new data, return
                          /\ tailers' = [tailers EXCEPT ![p] = r.t]
                          /\ stale' = [stale EXCEPT ![p] = FALSE]
                          /\ AfterRead(data_found)
                          /\ UNCHANGED <<disk, emitted>>
                  /\ seenSmall' = [seenSmall EXCEPT ![p] =
                                      @ \/ (/\ r.line = <<>>
                                            /\ eof = "same"
                                            /\ Len(disk[r.t.fdIno]) < r.t.offset)]
    /\ UNCHANGED <<dirent, nextIno, order, written, opened, atomicOnly,
                   epoch, nAppends, nFsOps>>
    /\ produced' = (produced \/ emitted' # emitted)
    /\ UNCHANGED <<lastAdd, polled>>
    /\ UNCHANGED <<ruleVars, agentVars, srvVars, connVars, storeVars, pipeVars>>

\* self.open() after the close in the EOF branch, and continue: with the
\* path gone by now the tailer keeps its closed handle.
ReadReopen ==
    /\ w_pc = "reopen"
    /\ LET p == order[w_idx]
       IN /\ tailers' = [tailers EXCEPT ![p] = TailerOpen(@, p)]
          /\ opened' = [opened EXCEPT ![p] = @ \/ tailers'[p].fd = "open"]
    /\ w_pc' = "loop"
    /\ UNCHANGED <<disk, dirent, nextIno, order, w_idx, data_found, emitted,
                   written, stale, atomicOnly, epoch, seenSmall, nAppends, nFsOps>>
    /\ UNCHANGED <<lastAdd, polled, produced>>
    /\ UNCHANGED <<ruleVars, agentVars, srvVars, connVars, storeVars, pipeVars>>

\* asyncio.sleep(0.5) is over: the next pass starts.
WakeUp ==
    /\ w_pc = "sleep"
    /\ w_pc' = IF order = <<>> THEN "sleep" ELSE "enter"
    /\ UNCHANGED <<disk, dirent, nextIno, tailers, order, w_idx, data_found,
                   emitted, written, opened, stale, atomicOnly, epoch,
                   seenSmall, nAppends, nFsOps>>
    /\ UNCHANGED <<lastAdd, polled, produced>>
    /\ UNCHANGED <<ruleVars, agentVars, srvVars, connVars, storeVars, pipeVars>>

\* ------------------------------------------------------------------------
\* The external writers of the tailed files
\* ------------------------------------------------------------------------

NoEpoch == [kind |-> "none", mark |-> 0, from |-> 0]

\* The tailer of p has read its file, the one the path names, to the end.
TailerAtEOF(p) ==
    /\ p \in DOMAIN tailers
    /\ Drained(tailers[p])
    /\ tailers[p].fdIno = dirent[p]
    /\ tailers[p].inode = dirent[p]

EpochAt(kind, p) ==
    IF TailerAtEOF(p) /\ atomicOnly[p]
    THEN [kind |-> kind, mark |-> Len(emitted[p]), from |-> Len(written[p])]
    ELSE NoEpoch

\* A writer appends bytes to the file at p in one write.
AppendBytes(p, bytes) ==
    /\ w_pc # "new"
    /\ p \in DOMAIN tailers
    /\ dirent[p] # 0
    /\ nAppends < MaxAppends
    /\ nAppends' = nAppends + 1
    /\ disk' = [disk EXCEPT ![dirent[p]] = @ \o bytes]
    /\ stale' = [stale EXCEPT ![p] = TRUE]
    /\ UNCHANGED <<dirent, nextIno, tailers, order, w_pc, w_idx, data_found,
                   emitted, opened, epoch, seenSmall, nFsOps>>
    /\ UNCHANGED <<lastAdd, polled, produced>>
    /\ UNCHANGED <<ruleVars, agentVars, srvVars, connVars, storeVars, pipeVars>>

AppendLine(p, line) ==
    /\ AppendBytes(p, line)
    /\ written' = [written EXCEPT ![p] = IF opened[p] THEN Append(@, line) ELSE @]
    /\ UNCHANGED atomicOnly

AppendFragment(p, frag) ==
    /\ AppendBytes(p, frag)
    /\ atomicOnly' = [atomicOnly EXCEPT ![p] = FALSE]
    /\ UNCHANGED written

\* mv p p.1; touch p: the path names a new, empty file.
Rotate(p) ==
    /\ w_pc # "new"
    /\ p \in DOMAIN tailers
    /\ dirent[p] # 0
    /\ nFsOps < MaxFsOps
    /\ nFsOps' = nFsOps + 1
    /\ dirent' = [dirent EXCEPT ![p] = nextIno]
    /\ nextIno' = nextIno + 1
    /\ disk' = Reclaim(disk, dirent', tailers)
    /\ stale' = [stale EXCEPT ![p] = TRUE]
    /\ epoch' = [epoch EXCEPT ![p] = EpochAt("rotate", p)]
    /\ seenSmall' = [seenSmall EXCEPT ![p] = FALSE]
    /\ UNCHANGED <<tailers, order, w_pc, w_idx, data_found, emitted, written,
                   opened, atomicOnly, nAppends>>
    /\ UNCHANGED <<lastAdd, polled, produced>>
    /\ UNCHANGED <<ruleVars, agentVars, srvVars, connVars, storeVars, pipeVars>>

\* rm p (or mv p elsewhere).
Remove(p) ==
    /\ w_pc # "new"
    /\ p \in DOMAIN tailers
    /\ dirent[p] # 0
    /\ nFsOps < MaxFsOps
    /\ nFsOps' = nFsOps + 1
    /\ dirent' = [dirent EXCEPT ![p] = 0]
    /\ disk' = Reclaim(disk, dirent', tailers)
    /\ stale' = [stale EXCEPT ![p] = TRUE]
    /\ epoch' = [epoch EXCEPT ![p] = NoEpoch]
    /\ seenSmall' = [seenSmall EXCEPT ![p] = FALSE]
    /\ UNCHANGED <<nextIno, tailers, order, w_pc, w_idx, data_found, emitted,
                   written, opened, atomicOnly, nAppends>>
    /\ UNCHANGED <<lastAdd, polled, produced>>
    /\ UNCHANGED <<ruleVars, agentVars, srvVars, connVars, storeVars, pipeVars>>

\* touch p, for a path that does not exist.
Create(p) ==
    /\ w_pc # "new"
    /\ p \in DOMAIN tailers
    /\ dirent[p] = 0
    /\ nFsOps < MaxFsOps
    /\ nFsOps' = nFsOps + 1
    /\ dirent' = [dirent EXCEPT ![p] = nextIno]
    /\ nextIno' = nextIno + 1
    /\ stale' = [stale EXCEPT ![p] = TRUE]
    /\ epoch' = [epoch EXCEPT ![p] = NoEpoch]
    /\ seenSmall' = [seenSmall EXCEPT ![p] = FALSE]
    /\ UNCHANGED <<disk, tailers, order, w_pc, w_idx, data_found, emitted,
                   written, opened, atomicOnly, nAppends>>
    /\ UNCHANGED <<lastAdd, polled, produced>>
    /\ UNCHANGED <<ruleVars, agentVars, srvVars, connVars, storeVars, pipeVars>>

\* : > p (copytruncate): same inode, size 0.
Truncate(p) ==
    /\ w_pc # "new"
    /\ p \in DOMAIN tailers
    /\ dirent[p] # 0
    /\ disk[dirent[p]] # <<>>
    /\ nFsOps < MaxFsOps
    /\ nFsOps' = nFsOps + 1
    /\ disk' = [disk EXCEPT ![dirent[p]] = <<>>]
    /\ stale' = [stale EXCEPT ![p] = TRUE]
    /\ epoch' = [epoch EXCEPT ![p] = EpochAt("trunc", p)]
    /\ seenSmall' = [seenSmall EXCEPT ![p] = FALSE]
    /\ UNCHANGED <<dirent, nextIno, tailers, order, w_pc, w_idx, data_found,
                   emitted, written, opened, atomicOnly, nAppends>>
    /\ UNCHANGED <<lastAdd, polled, produced>>
    /\ UNCHANGED <<ruleVars, agentVars, srvVars, connVars, storeVars, pipeVars>>


\* ------------------------------------------------------------------------
\* RuleEngine
\* ------------------------------------------------------------------------

\* None, where a string is optional.
None == "<None>"

\* None, where evaluate returns no Threat.
NoThreat == [none |-> TRUE]

\* No match of a pattern, and no rule with a match.
NoMatch == [matched |-> FALSE, groups |-> <<>>]

NoHit == [rule |-> 0, pattern |-> 0]

\* No evaluate call yet.
NoEvent == [source |-> None, raw |-> None, data |-> <<>>]

\* risk_score=0.8, in tenths.
RiskScoreTenths == 8

\* dict.get(key, default)
Get(d, k, dflt) == IF k \in DOMAIN d THEN d[k] ELSE dflt

\* A regular expression is modelled by the raw lines it finds a match in and
\* the named groups of its match; valid is FALSE for a pattern that
\* re.compile rejects.
PatFailed == [valid |-> TRUE, hits |-> {"sshd: Failed password for root from 10.0.0.5",
                                         "sshd: Failed password for root from 10.0.0.6"},
              groups |-> <<>>]

PatAdmin == [valid |-> TRUE, hits |-> {"GET /admin"}, groups |-> [ip |-> "10.0.0.7"]]

PatBad == [valid |-> FALSE, hits |-> {}, groups |-> <<>>]

\* (?P<attacker_ip>[\d.]*): finds a match in every line; the group is empty
\* where the line does not start with a digit or a dot.
PatAnyIp == [valid |-> TRUE,
             hits |-> {"sshd: Failed password for root from 10.0.0.5",
                       "sshd: Failed password for root from 10.0.0.6",
                       "GET /admin", "hello"},
             groups |-> [attacker_ip |-> ""]]

\* The rule files of the rules directory, as yaml.safe_load returns them.
RuleFiles ==
    { [id |-> "ssh-bf", name |-> "SSH brute force", description |-> "brute force",
       severity |-> "HIGH", log_source |-> "ssh",
       conditions |-> << [pattern |-> PatBad], [pattern |-> PatFailed] >>,
       aggregation |-> [threshold |-> 3, window |-> 60]],
      [id |-> "admin", name |-> "Admin probe",
       conditions |-> << [pattern |-> PatAdmin] >>],
      [id |-> "web-any", name |-> "Any request", description |-> "any request",
       severity |-> "LOW", log_source |-> "nginx",
       conditions |-> << [pattern |-> PatAnyIp] >>,
       aggregation |-> [threshold |-> 0, window |-> 0]] }

\* The events the parsers hand to the engine.
Events ==
    { [source |-> "ssh", raw |-> "sshd: Failed password for root from 10.0.0.5",
       data |-> [user |-> "root", ip |-> "10.0.0.5"]],
      [source |-> "ssh", raw |-> "sshd: Failed password for root from 10.0.0.6",
       data |-> [user |-> "root", ip |-> "10.0.0.6"]],
      [source |-> "nginx", raw |-> "GET /admin", data |-> [remote_addr |-> "10.0.0.5"]],
      [source |-> "generic", raw |-> "hello", data |-> [message |-> "hello"]] }

\* Rule.from_dict: the patterns that compile, and the defaults of the
\* optional keys.
FromDict(data) ==
    LET conds == Get(data, "conditions", <<>>)
        withPattern == SelectSeq(conds, LAMBDA c : "pattern" \in DOMAIN c /\ c["pattern"].valid)
    IN [id |-> data["id"],
        name |-> data["name"],
        description |-> Get(data, "description", ""),
        severity |-> Get(data, "severity", "MEDIUM"),
        source |-> Get(data, "log_source", "any"),
        patterns |-> [i \in 1..Len(withPattern) |-> withPattern[i]["pattern"]],
        threshold |-> Get(Get(data, "aggregation", <<>>), "threshold", 1),
        window |-> Get(Get(data, "aggregation", <<>>), "window", 60)]

\* pattern.search(raw): the match with its groupdict, or no match.
Search(pattern, raw) ==
    IF raw \in pattern.hits
    THEN [matched |-> TRUE, groups |-> pattern.groups]
    ELSE NoMatch

\* Python's truthiness of an optional string.
Truthy(v) == v # None /\ v # ""

\* a or b
PyOr(a, b) == IF Truthy(a) THEN a ELSE b

\* The fields of the event are consulted before the captures of the match.
AttackerIp_DataFirst(groups, event) ==
    PyOr(Get(event.data, "ip", None),
         PyOr(Get(event.data, "remote_addr", None),
              PyOr(Get(groups, "attacker_ip", None),
                   Get(groups, "ip", None))))

\* groups.get("attacker_ip") or groups.get("ip") or event.data.get("ip")
\*     or event.data.get("remote_addr")
AttackerIp(groups, event) ==
    PyOr(Get(groups, "attacker_ip", None),
         PyOr(Get(groups, "ip", None),
              PyOr(Get(event.data, "ip", None),
                   Get(event.data, "remote_addr", None))))

\* The first pattern of the rule, from index i on, that matches the event.
RECURSIVE FirstPattern(_, _, _)
FirstPattern(rule, event, i) ==
    IF i > Len(rule.patterns) THEN 0
    ELSE IF Search(rule.patterns[i], event.raw).matched THEN i
    ELSE FirstPattern(rule, event, i + 1)

\* Every rule is evaluated, whatever its source.
Eligible_Always(rule, event) == TRUE

\* The rule is not skipped: its source is "any" or the event's.
Eligible(rule, event) == ~(rule.source # "any" /\ rule.source # event.source)

\* The first rule, from index i on, that is for the event's source and has a
\* matching pattern: the indices of the rule and of the pattern, or NoHit.
RECURSIVE FirstHit(_, _, _)
FirstHit(rs, event, i) ==
    IF i > Len(rs) THEN NoHit
    ELSE IF ~Eligible(rs[i], event)
    THEN FirstHit(rs, event, i + 1)
    ELSE IF FirstPattern(rs[i], event, 1) # 0
    THEN [rule |-> i, pattern |-> FirstPattern(rs[i], event, 1)]
    ELSE FirstHit(rs, event, i + 1)

\* A Threat that does not name its rule.
ThreatOf_NoRuleId(rule, groups, event) ==
    [source |-> event.source,
     severity |-> rule.severity,
     type |-> "rule_match",
     description |-> rule.description,
     attacker_ip |-> AttackerIp(groups, event),
     raw_log |-> event.raw,
     risk_score |-> RiskScoreTenths,
     rule_id |-> None,
     status |-> "open"]

\* The Threat that evaluate returns for a match of the rule.
ThreatOf(rule, groups, event) ==
    [source |-> event.source,
     severity |-> rule.severity,
     type |-> "rule_match",
     description |-> rule.description,
     attacker_ip |-> AttackerIp(groups, event),
     raw_log |-> event.raw,
     risk_score |-> RiskScoreTenths,
     rule_id |-> rule.id,
     status |-> "open"]

\* RuleEngine.evaluate: the Threat of the first match, returned at once (no
\* aggregation: neither threshold, window nor state is consulted), or no
\* Threat.
Evaluate(rs, st, event, t) ==
    LET hit == FirstHit(rs, event, 1)
    IN IF hit = NoHit THEN NoThreat
       ELSE ThreatOf(rs[hit.rule],
                     Search(rs[hit.rule].patterns[hit.pattern], event.raw).groups,
                     event)

\* RuleEngine.load_rules: the rule files in the order glob yields them.
RECURSIVE SeqOfSet(_)
SeqOfSet(S) ==
    IF S = {} THEN {<<>>}
    ELSE UNION {{<<x>> \o rest : rest \in SeqOfSet(S \ {x})} : x \in S}

LoadRules(files) ==
    /\ ~r_loaded
    /\ r_loaded' = TRUE
    /\ rules' = [i \in 1..Len(files) |-> FromDict(files[i])]
    /\ UNCHANGED <<r_state, now, lastResult, lastEvent, matchLog, nEvals>>
    /\ UNCHANGED <<tailVars, agentVars, srvVars, connVars, storeVars, pipeVars>>

\* Time passes between two events.
Tick ==
    /\ r_loaded
    /\ now < MaxTime
    /\ now' = now + 10
    /\ UNCHANGED <<rules, r_state, r_loaded, lastResult, lastEvent, matchLog, nEvals>>
    /\ UNCHANGED <<tailVars, agentVars, srvVars, connVars, storeVars, pipeVars>>

\* DetectionPipeline.analyze hands an event to RuleEngine.evaluate.
EvaluateEvent(event) ==
    /\ r_loaded
    /\ nEvals < MaxEvals
    /\ nEvals' = nEvals + 1
    /\ LET hit == FirstHit(rules, event, 1)
           res == Evaluate(rules, r_state, event, now)
       IN /\ lastResult' = res
          /\ lastEvent' = event
          /\ matchLog' =
                IF hit = NoHit THEN matchLog
                ELSE Append(matchLog,
                            [rule |-> hit.rule,
                             ip |-> AttackerIp(Search(rules[hit.rule].patterns[hit.pattern],
                                                      event.raw).groups, event),
                             t |-> now,
                             event |-> event,
                             emitted |-> res # NoThreat])
    /\ UNCHANGED <<rules, r_state, r_loaded, now>>
    /\ UNCHANGED <<tailVars, agentVars, srvVars, connVars, storeVars, pipeVars>>

\* ------------------------------------------------------------------------
\* DetectionPipeline: the parser of a source path
\* ------------------------------------------------------------------------

\* needle in s
Contains(needle, s) ==
    \E i \in 1..(Len(s) - Len(needle) + 1) :
        SubSeq(s, i, i + Len(needle) - 1) = needle

StrNginx == <<"n", "g", "i", "n", "x">>

StrAuthLog == <<"a", "u", "t", "h", ".", "l", "o", "g">>

StrSecure == <<"s", "e", "c", "u", "r", "e">>

\* The pieces the source paths are made of.
PathParts ==
    { <<"/">>, StrNginx, StrAuthLog, StrSecure,
      <<"n", "g", "i", "n">>, <<"x">> }

\* The source paths: up to MaxParts pieces, one after the other.
RECURSIVE PathsOf(_)
PathsOf(n) ==
    IF n = 0 THEN {<<>>}
    ELSE PathsOf(n - 1) \cup {a \o b : a \in PathsOf(n - 1), b \in PathParts}

SourcePaths == PathsOf(MaxParts)

\* DetectionPipeline.parsers
Parsers == [nginx |-> "NginxParser", ssh |-> "SSHParser", generic |-> "GenericParser"]

\* The ssh parser's names are looked for first.
GetParser_SshFirst(path) ==
    IF Contains(StrAuthLog, path) \/ Contains(StrSecure, path) THEN Parsers["ssh"]
    ELSE IF Contains(StrNginx, path) THEN Parsers["nginx"]
    ELSE Parsers["generic"]

\* DetectionPipeline._get_parser
GetParser(path) ==
    IF Contains(StrNginx, path) THEN Parsers["nginx"]
    ELSE IF Contains(StrAuthLog, path) \/ Contains(StrSecure, path) THEN Parsers["ssh"]
    ELSE Parsers["generic"]

\* A call of _get_parser, as analyze makes it for the path of an event.
GetParserCall(path) ==
    /\ gp_path' = path
    /\ gp_parser' = GetParser(path)
    /\ UNCHANGED <<tailVars, ruleVars, agentVars, srvVars, connVars, storeVars>>

\* ------------------------------------------------------------------------
\* SentinelAgent: run, its main loop, and shutdown
\* ------------------------------------------------------------------------

\* The ids uuid4 draws for new Threats.
ThreatIds == {"THR-1", "THR-2"}

\* The two places shutdown() is started from: the task the signal handler
\* creates, and the finally block of run().
ShutdownCallers == {"sig", "fin"}

\* IPCServer.start: the socket file is (re)created and the server listens.
ServerStarted == [srv |-> "listening", sock |-> TRUE]

\* ------------------------------------------------------------------------
\* ThreatStore: rows and queries
\* ------------------------------------------------------------------------

ActionIds == {"ACT-1", "ACT-2"}

\* created_at is a text column; its values are modelled by their rank in
\* the order the ORDER BY compares them in.
Stamps == 1..MaxStamp

\* The fields of the dataclass Threat, and the Threats that are saved.
ThreatFields ==
    {"source", "severity", "type", "description", "attacker_ip", "attacker_geo",
     "raw_log", "risk_score", "rule_id", "anomaly_score", "llm_explanation",
     "status", "id", "created_at", "resolved_at", "resolved_by"}

Threats ==
    [source : {"ssh"}, severity : {"HIGH"}, type : {"rule_match"},
     description : {"brute force"}, attacker_ip : {None, "10.0.0.5"},
     attacker_geo : {None}, raw_log : {"sshd: Failed password"},
     risk_score : {RiskScoreTenths}, rule_id : {"ssh-bf"}, anomaly_score : {None},
     llm_explanation : {None}, status : {"open"}, id : ThreatIds,
     created_at : Stamps, resolved_at : {None}, resolved_by : {None}]

\* The fields of the dataclass Action, and the Actions that are saved.
Actions ==
    [threat_id : ThreatIds, type : {"block"}, target_ip : {"10.0.0.5"},
     duration : {60}, status : {"active"}, id : ActionIds, created_at : Stamps,
     expires_at : {None}, revoked_by : {None}, revoked_at : {None}]

\* The column list of the INSERT of save_threat and the tuple bound to it.
ThreatColumns ==
    <<"id", "created_at", "source", "severity", "type", "attacker_ip",
      "attacker_geo", "description", "raw_log", "risk_score", "rule_id",
      "anomaly_score", "llm_explanation", "status", "resolved_at", "resolved_by">>

ThreatValues(T) ==
    <<T.id, T.created_at, T.source, T.severity, T.type, T.attacker_ip,
      T.attacker_geo, T.description, T.raw_log, T.risk_score, T.rule_id,
      T.anomaly_score, T.llm_explanation, T.status, T.resolved_at, T.resolved_by>>

\* The column list of the INSERT of save_action and the tuple bound to it.
ActionColumns ==
    <<"id", "threat_id", "created_at", "type", "target_ip", "duration",
      "expires_at", "status", "revoked_by", "revoked_at">>

ActionValues(A) ==
    <<A.id, A.threat_id, A.created_at, A.type, A.target_ip, A.duration,
      A.expires_at, A.status, A.revoked_by, A.revoked_at>>

\* The row an INSERT makes: the i-th value under the i-th column.
RowOf(columns, values) ==
    [c \in {columns[i] : i \in 1..Len(columns)} |->
        values[CHOOSE i \in 1..Len(columns) : columns[i] = c]]

\* Threat(**dict(row)): each field from the column of its name.
ThreatFromRow(row) == [f \in ThreatFields |-> row[f]]

\* The ids of the rows of a table.
IdsOf(rows) == {rows[i].id : i \in 1..Len(rows)}

\* ORDER BY created_at DESC: the rows in an order of non-increasing
\* created_at; SQL leaves the order of rows with equal created_at open.
SortedDesc(rows) ==
    {s \in {[i \in 1..Len(rows) |-> rows[f[i]]] : f \in Permutations(1..Len(rows))} :
        \A i, j \in 1..Len(rows) : i < j => s[i].created_at >= s[j].created_at}

\* LIMIT n: the first n rows; SQLite takes a negative n as no limit.
Limit(rows, n) ==
    IF n < 0 THEN rows
    ELSE SubSeq(rows, 1, IF n < Len(rows) THEN n ELSE Len(rows))

\* ThreatStore.get_threats(limit), for the order the SELECT yields the
\* rows in.
GetThreats(sorted, limit) ==
    [i \in 1..Len(Limit(sorted, limit)) |-> ThreatFromRow(Limit(sorted, limit)[i])]

\* ThreatStore.initialize, the first step of run(): the database is opened,
\* or cannot be, and then run() raises before its try block.
StoreInit ==
    /\ a_pc = "start"
    /\ \E ok \in BOOLEAN :
          IF ok
          THEN /\ db' = "open"
               /\ a_pc' = "ipc_start"
               /\ UNCHANGED startupFailed
          ELSE /\ startupFailed' = TRUE
               /\ a_pc' = "crashed"
               /\ UNCHANGED db
    /\ UNCHANGED <<running, stored, sd, pending, aw_sleep, inflight, signalled,
                   raised, nEvents>>
    /\ UNCHANGED <<tailVars, ruleVars, srvVars, connVars, storeVars, pipeVars>>

\* run() from ipc.start() to the loop: the server listens, the paths are
\* added, _running is set.
IpcStart ==
    /\ a_pc = "ipc_start"
    /\ ipc_srv' = ServerStarted.srv
    /\ sock' = ServerStarted.sock
    /\ running' = TRUE
    /\ a_pc' = "watching"
    /\ UNCHANGED <<db, stored, sd, pending, aw_sleep, inflight, signalled,
                   startupFailed, raised, nEvents>>
    /\ UNCHANGED <<tailVars, ruleVars, connVars, storeVars, pipeVars>>

\* A line is appended to some tailed file.
LogAppend ==
    /\ nEvents < MaxEvents
    /\ nEvents' = nEvents + 1
    /\ pending' = pending + 1
    /\ UNCHANGED <<a_pc, running, db, stored, sd, aw_sleep, inflight, signalled,
                   startupFailed, raised>>
    /\ UNCHANGED <<tailVars, ruleVars, srvVars, connVars, storeVars, pipeVars>>

\* What the loop body of run() does with an event, up to its next
\* suspension: it leaves the loop when _running is false; otherwise the
\* event is analysed and a Threat, if any, is handed to save_threat.
\* threat is the id of the Threat, or None.
OnEvent(isRunning, threat) ==
    IF ~isRunning THEN "finally"
    ELSE IF threat = None THEN "watching"
    ELSE "saving"

\* One pass of LogWatcher.watch while run() awaits its next event: with a
\* line to read the event is yielded and run() takes it; with none the
\* watcher sleeps.
WatchPass ==
    /\ a_pc = "watching"
    /\ ~aw_sleep
    /\ IF pending > 0
       THEN /\ pending' = pending - 1
            /\ \E threat \in ThreatIds \cup {None} :
                  /\ a_pc' = OnEvent(running, threat)
                  /\ inflight' = IF a_pc' = "saving" THEN threat ELSE None
            /\ sd' = IF a_pc' = "finally" THEN [sd EXCEPT !["fin"] = "run"] ELSE sd
            /\ UNCHANGED aw_sleep
       ELSE /\ aw_sleep' = TRUE
            /\ UNCHANGED <<pending, a_pc, inflight, sd>>
    /\ UNCHANGED <<running, db, stored, signalled, startupFailed, raised, nEvents>>
    /\ UNCHANGED <<tailVars, ruleVars, srvVars, connVars, storeVars, pipeVars>>

\* asyncio.sleep(0.5) in LogWatcher.watch is over.
WatchWake ==
    /\ a_pc = "watching"
    /\ aw_sleep
    /\ aw_sleep' = FALSE
    /\ UNCHANGED <<a_pc, running, db, stored, sd, pending, inflight, signalled,
                   startupFailed, raised, nEvents>>
    /\ UNCHANGED <<tailVars, ruleVars, srvVars, connVars, storeVars, pipeVars>>

\* save_threat on a table without a primary key: a fresh id or not, the
\* INSERT can succeed.
SaveOutcomes_NoKey(handle, ids, id) ==
    IF handle # "open" THEN {"error"} ELSE {"ok", "error"}

\* ThreatStore.save_threat: the INSERT fails when the handle is not open,
\* when the id is already a primary key, or when the storage is unavailable.
SaveOutcomes(handle, ids, id) ==
    IF handle # "open" \/ id \in ids THEN {"error"} ELSE {"ok", "error"}

\* What run() does when save_threat raises: the exception is no
\* CancelledError, so it leaves the loop through finally and propagates.
AfterSaveError == [pc |-> "finally", raised |-> TRUE]

\* The await of save_threat in run() completes.
SaveDone ==
    /\ a_pc = "saving"
    /\ \E outcome \in SaveOutcomes(db, IdsOf(stored), inflight) :
          IF outcome = "ok"
          THEN /\ \E T \in Threats :
                     /\ T.id = inflight
                     /\ stored' = Append(stored, RowOf(ThreatColumns, ThreatValues(T)))
               /\ a_pc' = "watching"
               /\ UNCHANGED <<raised, sd>>
          ELSE /\ a_pc' = AfterSaveError.pc
               /\ raised' = AfterSaveError.raised
               /\ sd' = IF AfterSaveError.pc = "finally"
                        THEN [sd EXCEPT !["fin"] = "run"] ELSE sd
               /\ UNCHANGED stored
    /\ inflight' = None
    /\ UNCHANGED <<running, db, pending, aw_sleep, signalled, startupFailed,
                   nEvents>>
    /\ UNCHANGED <<tailVars, ruleVars, srvVars, connVars, storeVars, pipeVars>>

\* SIGINT or SIGTERM: the handler creates a task that runs shutdown().
Signal ==
    /\ sd["sig"] = "idle"
    /\ a_pc \notin {"done", "crashed"}
    /\ sd' = [sd EXCEPT !["sig"] = "run"]
    /\ signalled' = TRUE
    /\ UNCHANGED <<a_pc, running, db, stored, pending, aw_sleep, inflight,
                   startupFailed, raised, nEvents>>
    /\ UNCHANGED <<tailVars, ruleVars, srvVars, connVars, storeVars, pipeVars>>

\* The caller of shutdown() goes on: run() returns, or re-raises what its
\* loop raised.
AfterShutdown(k, pc, exc) ==
    IF k = "fin" THEN (IF exc THEN "crashed" ELSE "done") ELSE pc

\* store.close() as shutdown() enters it: without a handle it returns at
\* once and shutdown() is over; with one it awaits the handle's close().
StoreCloseEnter(k) ==
    IF db = "none"
    THEN /\ sd' = [sd EXCEPT ![k] = "done"]
         /\ a_pc' = AfterShutdown(k, a_pc, raised)
    ELSE /\ sd' = [sd EXCEPT ![k] = "db_wait"]
         /\ UNCHANGED a_pc

\* shutdown() up to its first suspension: _running is cleared and, when the
\* server exists, ipc.stop() closes it and awaits wait_closed(); without a
\* server it goes straight on to store.close().
ShutdownBegin(k) ==
    /\ sd[k] = "run"
    /\ running' = FALSE
    /\ IF ipc_srv # "none"
       THEN /\ ipc_srv' = "closed"
            /\ sd' = [sd EXCEPT ![k] = "ipc_wait"]
            /\ UNCHANGED a_pc
       ELSE /\ StoreCloseEnter(k)
            /\ UNCHANGED ipc_srv
    /\ UNCHANGED <<db, stored, pending, aw_sleep, inflight, signalled,
                   startupFailed, raised, nEvents, sock>>
    /\ UNCHANGED <<tailVars, ruleVars, connVars, storeVars, pipeVars>>

\* An unlink of the socket file that does not look whether it exists.
StopUnlink_Unguarded(exists) == [sock |-> FALSE, raises |-> ~exists]

\* The end of ipc.stop(): the socket file is unlinked when it exists;
\* without the file nothing is done and nothing raised.
StopUnlink(exists) == [sock |-> FALSE, raises |-> FALSE]

\* ipc.stop() after wait_closed(): the socket file is unlinked when it
\* exists, and shutdown() goes on to store.close().
ShutdownIpcClosed(k) ==
    /\ sd[k] = "ipc_wait"
    /\ sock' = StopUnlink(sock).sock
    /\ IF StopUnlink(sock).raises
       THEN /\ sd' = [sd EXCEPT ![k] = "error"]
            /\ UNCHANGED a_pc
       ELSE StoreCloseEnter(k)
    /\ UNCHANGED <<running, db, stored, pending, aw_sleep, inflight,
                   signalled, startupFailed, raised, nEvents, ipc_srv>>
    /\ UNCHANGED <<tailVars, ruleVars, connVars, storeVars, pipeVars>>

\* The handle's close() completes, and shutdown() returns.  Closing a handle
\* that is closed already leaves it closed.
ShutdownStoreClose(k) ==
    /\ sd[k] = "db_wait"
    /\ db' = "closed"
    /\ sd' = [sd EXCEPT ![k] = "done"]
    /\ a_pc' = AfterShutdown(k, a_pc, raised)
    /\ UNCHANGED <<running, stored, pending, aw_sleep, inflight, signalled,
                   startupFailed, raised, nEvents>>
    /\ UNCHANGED <<tailVars, ruleVars, srvVars, connVars, storeVars, pipeVars>>

\* ------------------------------------------------------------------------
\* ThreatStore: the calls of its clients
\* ------------------------------------------------------------------------

\* The limits get_threats is called with.
Limits == {-1, 0, 1, 2}

NoCallYet == [op |-> "none"]

\* ThreatStore.save_threat(T): the row is inserted and committed, or the
\* INSERT raises and the table is left as it was.  conflict says that the
\* id was a primary key of the table already.
SaveThreat(T) ==
    /\ db = "open"
    /\ nStoreOps < MaxStoreOps
    /\ nStoreOps' = nStoreOps + 1
    /\ \E outcome \in SaveOutcomes(db, IdsOf(stored), T.id) :
          /\ stored' = IF outcome = "ok"
                       THEN Append(stored, RowOf(ThreatColumns, ThreatValues(T)))
                       ELSE stored
          /\ st_last' = [op |-> "save_threat", arg |-> T, ok |-> outcome = "ok",
                         conflict |-> T.id \in IdsOf(stored),
                         before |-> stored, after |-> stored']
    /\ UNCHANGED actions
    /\ UNCHANGED <<a_pc, running, db, sd, pending, aw_sleep, inflight, signalled,
                   startupFailed, raised, nEvents>>
    /\ UNCHANGED <<tailVars, ruleVars, srvVars, connVars, pipeVars>>

\* ThreatStore.save_action(A), likewise on the actions table.
SaveAction(A) ==
    /\ db = "open"
    /\ nStoreOps < MaxStoreOps
    /\ nStoreOps' = nStoreOps + 1
    /\ \E outcome \in SaveOutcomes(db, IdsOf(actions), A.id) :
          /\ actions' = IF outcome = "ok"
                        THEN Append(actions, RowOf(ActionColumns, ActionValues(A)))
                        ELSE actions
          /\ st_last' = [op |-> "save_action", arg |-> A, ok |-> outcome = "ok",
                         conflict |-> A.id \in IdsOf(actions),
                         before |-> actions, after |-> actions']
    /\ UNCHANGED <<tailVars, ruleVars, agentVars, srvVars, connVars, pipeVars>>

\* ThreatStore.get_threats(n).  saved is the Threat that the call right
\* before this one saved, if it was a save_threat that succeeded.
GetThreatsCall(n) ==
    /\ db = "open"
    /\ nStoreOps < MaxStoreOps
    /\ nStoreOps' = nStoreOps + 1
    /\ \E sorted \in SortedDesc(stored) :
          st_last' = [op |-> "get_threats", arg |-> n,
                      result |-> GetThreats(sorted, n),
                      saved |-> IF st_last.op = "save_threat" /\ st_last.ok
                                THEN <<st_last.arg>> ELSE <<>>,
                      table |-> stored]
    /\ UNCHANGED actions
    /\ UNCHANGED <<tailVars, ruleVars, agentVars, srvVars, connVars, pipeVars>>

\* ------------------------------------------------------------------------
\* IPCServer
\* ------------------------------------------------------------------------

ConnIds == {"c1", "c2"}

\* The handler table SentinelAgent.__init__ builds.
HandlerNames == {"status", "threats"}

\* The JSON value of a method that is a list or an object: Python cannot
\* hash it, and a dict lookup with it raises TypeError.
Unhashable == {"[]", "{}"}

EmptyDict == [kind |-> "dict"]

\* The lines a client sends.  json says what json.loads makes of the line:
\* it raises ("invalid"), returns a list ("array"), or returns the dict req.
\* A method, an id and params that the request does not carry are absent
\* from req; params is a dict (with or without limit) or a list.
RequestLines ==
    { [json |-> "invalid"],
      [json |-> "array"],
      [json |-> "object", req |-> [method |-> "status", params |-> EmptyDict, id |-> "7"]],
      [json |-> "object", req |-> [method |-> "nope", params |-> EmptyDict, id |-> "a"]],
      [json |-> "object", req |-> [id |-> "7"]],
      [json |-> "object", req |-> [method |-> "[]", id |-> "7"]],
      [json |-> "object", req |-> [method |-> "threats",
                                   params |-> [kind |-> "dict", limit |-> 1], id |-> "b"]],
      [json |-> "object", req |-> [method |-> "threats", params |-> [kind |-> "list"],
                                   id |-> "b"]] }

\* What a handler does: it returns a result or raises with a message.
Returned(v) == [raised |-> FALSE, value |-> v]

Raised(msg) == [raised |-> TRUE, message |-> msg]

\* No handler was called; no response was written.
NoCall == [raised |-> FALSE, nocall |-> TRUE]

NoResponse == [none |-> TRUE]

\* The paths are those of the watcher as it was constructed: none.
HandleStatus_AtConstruction(params) ==
    Returned([kind |-> "status", status |-> "running", uptime |-> "TODO",
              monitored_files |-> <<>>])

\* SentinelAgent.handle_status: list(self.watcher.tailers.keys())
HandleStatus(params) ==
    Returned([kind |-> "status", status |-> "running", uptime |-> "TODO",
              monitored_files |-> order])

\* The dict handle_threats makes of a Threat.
ThreatSummary(t) ==
    [id |-> t.id, severity |-> t.severity, source |-> t.source,
     description |-> t.description, created_at |-> t.created_at]

\* SentinelAgent.handle_threats: params.get raises on a list, and
\* get_threats raises without an open database handle.  sorted is the order
\* the SELECT yields the rows in.
HandleThreats(params, sorted) ==
    IF params.kind # "dict"
    THEN Raised("'list' object has no attribute 'get'")
    ELSE IF db # "open"
    THEN Raised("no active connection")
    ELSE LET got == GetThreats(sorted, IF "limit" \in DOMAIN params
                                       THEN params.limit ELSE 10)
         IN Returned([kind |-> "threats",
                      threats |-> [i \in 1..Len(got) |-> ThreatSummary(got[i])]])

CallHandler(method, params, sorted) ==
    IF method = "status" THEN HandleStatus(params) ELSE HandleThreats(params, sorted)

MethodNotFound(msg_id) ==
    [jsonrpc |-> "2.0",
     error |-> [code |-> -32601, message |-> "Method not found"],
     id |-> msg_id]

\* HandlerError with the request's id left out.
HandlerError_NoId(message, msg_id) ==
    [jsonrpc |-> "2.0", error |-> [code |-> -32000, message |-> message], id |-> None]

HandlerError(message, msg_id) ==
    [jsonrpc |-> "2.0", error |-> [code |-> -32000, message |-> message], id |-> msg_id]

Success(value, msg_id) == [jsonrpc |-> "2.0", result |-> value, id |-> msg_id]

\* IPCServer.process_request: the response, or the exception that the
\* lookup of an unhashable method raises out of it; called is the handler
\* invoked, if any.
ProcessRequest(request, sorted) ==
    LET method == Get(request, "method", None)
        params == Get(request, "params", EmptyDict)
        msg_id == Get(request, "id", None)
    IN IF method \in Unhashable
       THEN [raises |-> TRUE, called |-> None, outcome |-> NoCall,
             response |-> NoResponse]
       ELSE IF method \notin HandlerNames
       THEN [raises |-> FALSE, called |-> None, outcome |-> NoCall,
             response |-> MethodNotFound(msg_id)]
       ELSE LET r == CallHandler(method, params, sorted)
            IN [raises |-> FALSE, called |-> method, outcome |-> r,
                response |-> IF r.raised THEN HandlerError(r.message, msg_id)
                             ELSE Success(r.value, msg_id)]

\* One iteration of the loop of handle_client for a line: "reply" with the
\* response written, or "close" when json.loads, request.get or
\* process_request raises.
ServeLine(line, sorted) ==
    IF line.json # "object"
    THEN [act |-> "close", called |-> None, outcome |-> NoCall, response |-> NoResponse]
    ELSE LET p == ProcessRequest(line.req, sorted)
         IN IF p.raises
            THEN [act |-> "close", called |-> None, outcome |-> NoCall,
                  response |-> NoResponse]
            ELSE [act |-> "reply", called |-> p.called, outcome |-> p.outcome,
                  response |-> p.response]

\* A client error that takes the server down with the connection.
ServerAfterClientError_Stops(srv) == "closed"

\* The except branches of handle_client log and fall through to finally: the
\* server is left as it is.
ServerAfterClientError(srv) == srv

\* The response is written ahead of the ones written before.
Write_Front(outbox, response) == <<response>> \o outbox

\* writer.write(json.dumps(response).encode() + b"\n"): the line follows the
\* ones written before.
Write(outbox, response) == Append(outbox, response)

\* finally in handle_client: the writer of this connection is closed.
CloseConn(cs, c) == [cs EXCEPT ![c].state = "closed", ![c].inbox = <<>>]

\* A client connects to the socket.
Connect(c) ==
    /\ ipc_srv = "listening"
    /\ conns[c].state = "free"
    /\ conns' = [conns EXCEPT ![c].state = "open"]
    /\ ipcLog' = Append(ipcLog, [conn |-> c, act |-> "accept"])
    /\ UNCHANGED nSends
    /\ UNCHANGED <<tailVars, ruleVars, agentVars, srvVars, storeVars, pipeVars>>

\* A client sends one line.
Send(c, line) ==
    /\ conns[c].state = "open"
    /\ ~conns[c].eof
    /\ nSends < MaxSends
    /\ nSends' = nSends + 1
    /\ conns' = [conns EXCEPT ![c].inbox = Append(@, line)]
    /\ UNCHANGED ipcLog
    /\ UNCHANGED <<tailVars, ruleVars, agentVars, srvVars, storeVars, pipeVars>>

\* A client closes its end.
ClientClose(c) ==
    /\ conns[c].state = "open"
    /\ ~conns[c].eof
    /\ conns' = [conns EXCEPT ![c].eof = TRUE]
    /\ UNCHANGED <<ipcLog, nSends>>
    /\ UNCHANGED <<tailVars, ruleVars, agentVars, srvVars, storeVars, pipeVars>>

\* handle_client, one iteration for the next line of connection c.
HandleLine(c) ==
    /\ conns[c].state = "open"
    /\ conns[c].inbox # <<>>
    /\ \E sorted \in SortedDesc(stored) :
       LET line == Head(conns[c].inbox)
           s == ServeLine(line, sorted)
           rest == [conns EXCEPT ![c].inbox = Tail(@)]
       IN /\ IF s.act = "reply"
             THEN /\ conns' = [rest EXCEPT ![c].outbox = Write(@, s.response)]
                  /\ UNCHANGED ipc_srv
             ELSE /\ conns' = CloseConn(rest, c)
                  /\ ipc_srv' = ServerAfterClientError(ipc_srv)
          /\ ipcLog' = Append(ipcLog, [conn |-> c, line |-> line, act |-> s.act,
                                       called |-> s.called, outcome |-> s.outcome,
                                       response |-> s.response,
                                       connAfter |-> conns'[c].state,
                                       srvAfter |-> ipc_srv'])
    /\ UNCHANGED <<nSends, sock>>
    /\ UNCHANGED <<tailVars, ruleVars, agentVars, storeVars, pipeVars>>

\* handle_client at EOF: readuntil raises IncompleteReadError, the
\* connection is closed.
HandleEOF(c) ==
    /\ conns[c].state = "open"
    /\ conns[c].inbox = <<>>
    /\ conns[c].eof
    /\ conns' = CloseConn(conns, c)
    /\ UNCHANGED <<ipcLog, nSends>>
    /\ UNCHANGED <<tailVars, ruleVars, agentVars, srvVars, storeVars, pipeVars>>

\* ------------------------------------------------------------------------
\* Initial state and specifications
\* ------------------------------------------------------------------------

\* LogWatcher([]) has no tailer.  On disk p1 holds one old line and p2 does
\* not exist yet.
InitTail ==
    /\ disk = [i \in Inodes |-> IF i = 1 THEN <<"a", NL>> ELSE <<>>]
    /\ dirent = [p \in Paths |-> IF p = "p1" THEN 1 ELSE 0]
    /\ nextIno = 2
    /\ tailers = <<>>
    /\ order = <<>>
    /\ w_pc = "new"
    /\ w_idx = 1
    /\ data_found = FALSE
    /\ emitted = [p \in Paths |-> <<>>]
    /\ written = [p \in Paths |-> <<>>]
    /\ opened = [p \in Paths |-> FALSE]
    /\ stale = [p \in Paths |-> FALSE]
    /\ atomicOnly = [p \in Paths |-> TRUE]
    /\ epoch = [p \in Paths |-> NoEpoch]
    /\ seenSmall = [p \in Paths |-> FALSE]
    /\ nAppends = 0
    /\ nFsOps = 0
    /\ lastAdd = NoAdd
    /\ polled = <<>>
    /\ produced = FALSE

\* RuleEngine.__init__: no rules, empty sliding-window state.
InitRule ==
    /\ rules = <<>>
    /\ r_state = <<>>
    /\ r_loaded = FALSE
    /\ now = 0
    /\ lastResult = NoThreat
    /\ lastEvent = NoEvent
    /\ matchLog = <<>>
    /\ nEvals = 0

\* SentinelAgent.__init__: nothing is started.
InitAgent ==
    /\ a_pc = "start"
    /\ running = FALSE
    /\ db = "none"
    /\ stored = <<>>
    /\ sd = [k \in ShutdownCallers |-> "idle"]
    /\ pending = 0
    /\ aw_sleep = FALSE
    /\ inflight = None
    /\ signalled = FALSE
    /\ startupFailed = FALSE
    /\ raised = FALSE
    /\ nEvents = 0

\* IPCServer.__init__: no server, no connection.
InitIPC ==
    /\ ipc_srv = "none"
    /\ sock = FALSE
    /\ conns = [c \in ConnIds |->
                  [state |-> "free", inbox |-> <<>>, outbox |-> <<>>, eof |-> FALSE]]
    /\ ipcLog = <<>>
    /\ nSends = 0

\* ThreatStore.__init__: nothing was called.
InitStore ==
    /\ actions = <<>>
    /\ st_last = NoCallYet
    /\ nStoreOps = 0

InitPipe ==
    /\ gp_path = <<>>
    /\ gp_parser = None

Init == InitTail /\ InitRule /\ InitAgent /\ InitIPC /\ InitStore /\ InitPipe

NextTail ==
    \/ \E p \in Paths : AddPath(p)
    \/ WatchInit
    \/ ReadEnter
    \/ ReadIter
    \/ ReadReopen
    \/ WakeUp
    \/ \E p \in Paths, line \in AtomicLines : AppendLine(p, line)
    \/ \E p \in Paths, frag \in Fragments : AppendFragment(p, frag)
    \/ \E p \in Paths : Rotate(p)
    \/ \E p \in Paths : Remove(p)
    \/ \E p \in Paths : Create(p)
    \/ \E p \in Paths : Truncate(p)

\* The watcher with the one path p1, its tailer and the writers of its file.
NextTailOne ==
    \/ AddPath("p1")
    \/ WatchInit
    \/ ReadEnter
    \/ ReadIter
    \/ ReadReopen
    \/ WakeUp
    \/ \E line \in AtomicLines : AppendLine("p1", line)
    \/ \E frag \in Fragments : AppendFragment("p1", frag)
    \/ Rotate("p1")
    \/ Remove("p1")
    \/ Create("p1")
    \/ Truncate("p1")

NextPipe == \E path \in SourcePaths : GetParserCall(path)

NextRule ==
    \/ \E files \in SeqOfSet(RuleFiles) : LoadRules(files)
    \/ Tick
    \/ \E event \in Events : EvaluateEvent(event)

NextAgent ==
    \/ StoreInit
    \/ IpcStart
    \/ LogAppend
    \/ WatchPass
    \/ WatchWake
    \/ SaveDone
    \/ Signal
    \/ \E k \in ShutdownCallers : ShutdownBegin(k)
    \/ \E k \in ShutdownCallers : ShutdownIpcClosed(k)
    \/ \E k \in ShutdownCallers : ShutdownStoreClose(k)

NextIPC ==
    \/ StoreInit
    \/ IpcStart
    \/ \E c \in ConnIds : Connect(c)
    \/ \E c \in ConnIds, line \in RequestLines : Send(c, line)
    \/ \E c \in ConnIds : ClientClose(c)
    \/ \E c \in ConnIds : HandleLine(c)
    \/ \E c \in ConnIds : HandleEOF(c)

NextStore ==
    \/ StoreInit
    \/ \E T \in Threats : SaveThreat(T)
    \/ \E A \in Actions : SaveAction(A)
    \/ \E n \in Limits : GetThreatsCall(n)

\* run() registers the configured paths before it enters its loop.
RunAddPath(p) == a_pc = "ipc_start" /\ AddPath(p)

\* The loop of run() starts watch(), which opens every tailer.
RunWatchInit == a_pc = "watching" /\ WatchInit

\* The agent with the tailers of its watcher: their registration and their
\* opening, and the agent's steps up to the end of its shutdowns.
NextAgentTailers ==
    \/ StoreInit
    \/ \E p \in Paths : RunAddPath(p)
    \/ IpcStart
    \/ RunWatchInit
    \/ LogAppend
    \/ WatchPass
    \/ WatchWake
    \/ SaveDone
    \/ Signal
    \/ \E k \in ShutdownCallers : ShutdownBegin(k)
    \/ \E k \in ShutdownCallers : ShutdownIpcClosed(k)
    \/ \E k \in ShutdownCallers : ShutdownStoreClose(k)

\* The requests that name a handler and carry a dict of params.
HandlerRequests ==
    {line \in RequestLines :
        /\ line.json = "object"
        /\ Get(line.req, "method", None) \in HandlerNames
        /\ Get(line.req, "params", EmptyDict).kind = "dict"}

\* The agent from its start into its loop, with one client of its socket.
NextAgentIPC ==
    \/ StoreInit
    \/ \E p \in Paths : RunAddPath(p)
    \/ IpcStart
    \/ LogAppend
    \/ WatchPass
    \/ WatchWake
    \/ SaveDone
    \/ Connect("c1")
    \/ \E line \in HandlerRequests : Send("c1", line)
    \/ HandleLine("c1")

\* The agent with its shutdown, and one client of its socket.
NextAgentClient ==
    \/ StoreInit
    \/ IpcStart
    \/ LogAppend
    \/ WatchPass
    \/ WatchWake
    \/ SaveDone
    \/ Signal
    \/ \E k \in ShutdownCallers : ShutdownBegin(k)
    \/ \E k \in ShutdownCallers : ShutdownIpcClosed(k)
    \/ \E k \in ShutdownCallers : ShutdownStoreClose(k)
    \/ Connect("c1")
    \/ \E line \in HandlerRequests : Send("c1", line)
    \/ HandleLine("c1")

SpecTail == Init /\ [][NextTail]_vars

SpecTailOne == Init /\ [][NextTailOne]_vars

SpecAgentTailers == Init /\ [][NextAgentTailers]_vars

SpecPipe == Init /\ [][NextPipe]_vars

SpecAgentIPC == Init /\ [][NextAgentIPC]_vars

SpecAgentClient == Init /\ [][NextAgentClient]_vars

SpecStore == Init /\ [][NextStore]_vars

SpecRule == Init /\ [][NextRule]_vars

SpecAgent == Init /\ [][NextAgent]_vars

\* The event loop runs every task that can run: each step of run(), of the
\* watcher and of a started shutdown() is taken if it stays possible.
\* Nothing obliges a writer to append a line or anyone to send a signal.
AgentFairness ==
    /\ WF_vars(StoreInit)
    /\ WF_vars(IpcStart)
    /\ WF_vars(WatchPass)
    /\ WF_vars(WatchWake)
    /\ WF_vars(SaveDone)
    /\ \A k \in ShutdownCallers :
          /\ WF_vars(ShutdownBegin(k))
          /\ WF_vars(ShutdownIpcClosed(k))
          /\ WF_vars(ShutdownStoreClose(k))

SpecAgentFair == Init /\ [][NextAgent]_vars /\ AgentFairness

SpecIPC == Init /\ [][NextIPC]_vars

\* ------------------------------------------------------------------------
\* Claims about the tailer and the watcher
\* ------------------------------------------------------------------------

Count(seq, x) == Cardinality({i \in 1..Len(seq) : seq[i] = x})

Since(seq, k) == SubSeq(seq, k + 1, Len(seq))

\* The atomic lines that stripping leaves as they are, but for the newline.
CleanLines == {L \in AtomicLines : Strip(L) = Chomp(L) /\ Chomp(L) # <<>>}

\* The tailer of p has drained its file since the last change of the file,
\* and every write since the open was an atomic, newline-terminated line.
Settled(p) == opened[p] /\ atomicOnly[p] /\ ~stale[p]

\* C1: every line appended in one newline-terminated write after the tailer
\* was opened has, once the tailer has drained the file, exactly one
\* LogEvent whose content is the line without its trailing newline.
C1_EachLineExactlyOnce ==
    \A p \in Paths :
        Settled(p) =>
            \A L \in AtomicLines :
                Count(emitted[p], Chomp(L)) = Count(written[p], L)

\* C2: after a rotation (new inode at the path) that found the tailer at
\* EOF, once the tailer has drained the file again, its recorded inode is
\* the new file's and every line written to the new file has been emitted
\* exactly once.  Stated for the lines without surrounding whitespace, on
\* which stripping has no effect.
C2_RotationKeepsNewLines ==
    \A p \in Paths :
        (Settled(p) /\ epoch[p].kind = "rotate") =>
            /\ tailers[p].inode = dirent[p]
            /\ \A L \in CleanLines :
                   Count(Since(emitted[p], epoch[p].mark), Chomp(L))
                       = Count(Since(written[p], epoch[p].from), L)

\* C3: after a truncation (same inode) that found the tailer at EOF, and a
\* read that reached EOF with the file smaller than the recorded offset,
\* once the tailer has drained the file again every line written after the
\* truncation has been emitted exactly once.  Stated for the lines without
\* surrounding whitespace.
C3_TruncationKeepsNewLines ==
    \A p \in Paths :
        (Settled(p) /\ epoch[p].kind = "trunc" /\ seenSmall[p]) =>
            \A L \in CleanLines :
                Count(Since(emitted[p], epoch[p].mark), Chomp(L))
                    = Count(Since(written[p], epoch[p].from), L)

\* ------------------------------------------------------------------------
\* Claims about the rule engine
\* ------------------------------------------------------------------------

\* The matches of the log up to entry i, for the same rule and attacker as
\* entry i, that lie in the rule's window ending at entry i.
InWindow(i) ==
    {j \in 1..i : /\ matchLog[j].rule = matchLog[i].rule
                  /\ matchLog[j].ip = matchLog[i].ip
                  /\ matchLog[j].t >= matchLog[i].t - rules[matchLog[i].rule].window}

\* C4: a match yields a Threat only if the matches of the same rule and
\* attacker in the rule's window, the current one included, number at least
\* the rule's threshold.
C4_ThreatOnlyAtThreshold ==
    \A i \in 1..Len(matchLog) :
        matchLog[i].emitted =>
            Cardinality(InWindow(i)) >= rules[matchLog[i].rule].threshold

\* C5: for a rule with threshold > 1, the match that follows an emission for
\* the same rule and attacker yields no Threat.
C5_NoThreatRightAfterEmission ==
    \A i, j \in 1..Len(matchLog) :
        (/\ i < j
         /\ matchLog[i].rule = matchLog[j].rule
         /\ matchLog[i].ip = matchLog[j].ip
         /\ rules[matchLog[i].rule].threshold > 1
         /\ \A k \in (i + 1)..(j - 1) :
                ~(matchLog[k].rule = matchLog[i].rule /\ matchLog[k].ip = matchLog[i].ip)
         /\ matchLog[i].emitted)
        => ~matchLog[j].emitted

\* The tailer of p holds a handle on the file that the path names: no
\* rotation is under way for it.
LiveTailer(p) ==
    /\ p \in DOMAIN tailers
    /\ tailers[p].fd = "open"
    /\ tailers[p].fdIno = dirent[p]

\* C14: outside a rotation, the recorded offset of every open tailer is at
\* most the size of its file, whatever was read, appended or truncated.
\* The tailer is given its next read to take note of a change of the file:
\* the states looked at are those where it has read to the end since.
C14_OffsetWithinFile ==
    \A p \in Paths :
        (LiveTailer(p) /\ ~stale[p]) =>
            tailers[p].offset <= Len(disk[tailers[p].fdIno])

\* a is b with some of its elements left out.
RECURSIVE IsSubseq(_, _)
IsSubseq(a, b) ==
    IF a = <<>> THEN TRUE
    ELSE IF b = <<>> THEN FALSE
    ELSE IF Head(a) = Head(b) THEN IsSubseq(Tail(a), Tail(b))
    ELSE IsSubseq(a, Tail(b))

\* What the events of the lines are, in the order the lines were written
\* in: each line without its newline and surrounding blanks, the lines that
\* are blank left out.
RECURSIVE ContentsOf(_)
ContentsOf(lines) ==
    IF lines = <<>> THEN <<>>
    ELSE IF Strip(Head(lines)) = <<>> THEN ContentsOf(Tail(lines))
    ELSE <<Strip(Head(lines))>> \o ContentsOf(Tail(lines))

\* C15: the events of a file whose writers append whole lines come in the
\* order the lines were written in, the lines of a rotated file before
\* those of the file that replaced it.
C15_EventsInFileOrder ==
    \A p \in Paths :
        atomicOnly[p] => IsSubseq(emitted[p], ContentsOf(written[p]))

\* Two different lines were emitted, the first from a file that was rotated
\* away, the second from the file that replaced it.
C15_Witness ==
    \E p \in Paths :
        /\ atomicOnly[p]
        /\ LiveTailer(p)
        /\ written[p] = << <<"a", NL>>, <<" ", "b", NL>> >>
        /\ emitted[p] = << <<"a">>, <<"b">> >>
        /\ disk[dirent[p]] = <<" ", "b", NL>>
        /\ tailers[p].inode > 1

\* C16: a tailer whose file is missing, at an open or at a poll, raises no
\* error: the watcher goes on with its passes over the tailers.
C16_MissingFileRaisesNothing == w_pc # "raised"

\* C20: after add_path(p) the watcher holds exactly one tailer for p, and
\* a call for a path that has a tailer leaves that tailer, with its handle,
\* inode and offset, and every other one as they were.
C20_AddPathIsIdempotent ==
    [][lastAdd' # lastAdd =>
          /\ lastAdd'.path \in DOMAIN tailers'
          /\ Count(order', lastAdd'.path) = 1
          /\ Len(order') = Cardinality(DOMAIN tailers')
          /\ lastAdd'.path \in DOMAIN tailers =>
                (tailers' = tailers /\ order' = order)]_vars

\* add_path was called again for a path whose tailer holds an open handle
\* at an offset that is not the initial one.
C20_Witness ==
    /\ lastAdd.path \in DOMAIN tailers
    /\ lastAdd.found = "open"
    /\ tailers[lastAdd.path].fd = "open"
    /\ tailers[lastAdd.path].offset > 0
    /\ tailers[lastAdd.path].inode > 0

\* ------------------------------------------------------------------------
\* Claims about the Threats of the rule engine
\* ------------------------------------------------------------------------

\* The rule is for the event's source and one of its patterns finds a match
\* in the event's raw line.
RuleMatches(rule, event) ==
    /\ rule.source = "any" \/ rule.source = event.source
    /\ \E k \in 1..Len(rule.patterns) : event.raw \in rule.patterns[k].hits

\* The rule that matched the event: the first one, in load order, that
\* matches it.
MatchedRule(event) ==
    rules[CHOOSE i \in 1..Len(rules) :
              /\ RuleMatches(rules[i], event)
              /\ \A j \in 1..(i - 1) : ~RuleMatches(rules[j], event)]

\* C17: a Threat that evaluate returns has the id of the rule that matched
\* as its rule_id, never none, that rule's severity and description, the
\* type "rule_match", the risk_score 0.8, which is within [0, 1], and the
\* status "open".
C17_ThreatCarriesItsRule ==
    lastResult # NoThreat =>
        /\ matchLog # <<>>
        /\ \E i \in 1..Len(rules) : RuleMatches(rules[i], matchLog[Len(matchLog)].event)
        /\ LET rule == MatchedRule(matchLog[Len(matchLog)].event)
           IN /\ lastResult.rule_id = rule.id
              /\ lastResult.rule_id # None
              /\ lastResult.severity = rule.severity
              /\ lastResult.description = rule.description
              /\ lastResult.type = "rule_match"
              /\ lastResult.risk_score = 8
              /\ 0 <= lastResult.risk_score /\ lastResult.risk_score <= 10
              /\ lastResult.status = "open"

\* evaluate returned a Threat of the rule that leaves severity and
\* description to their defaults, and one of the rule that sets them.
C17_Witness ==
    /\ lastResult # NoThreat
    /\ lastResult.rule_id = "admin"
    /\ lastResult.severity = "MEDIUM"
    /\ \E i \in 1..Len(matchLog) :
          matchLog[i].emitted /\ rules[matchLog[i].rule].id = "ssh-bf"

\* ------------------------------------------------------------------------
\* Claims about the agent's main loop and shutdown
\* ------------------------------------------------------------------------

\* run() has left its loop.
LoopExited == a_pc \in {"finally", "done", "crashed"}

\* The agent has stopped: run() is over, the IPC server does not accept,
\* the store handle is not open.
Stopped == a_pc \in {"done", "crashed"} /\ ipc_srv # "listening" /\ db # "open"

\* C6: a failing save_threat does not stop the agent: run() leaves its loop
\* only after a startup error or a cancellation signal.
C6_OnlyStartupErrorOrSignalStops == LoopExited => (signalled \/ startupFailed)

\* A signal has been delivered to an agent that is in its main loop with
\* _running set; the task the handler created has yet to run.
SignalledWhileRunning ==
    signalled /\ sd["sig"] = "run" /\ running /\ a_pc = "watching"

\* C7: once a signal has been delivered to a running agent, the agent
\* eventually stops, whether or not another line is ever appended.
C7_SignalLeadsToStopped == SignalledWhileRunning ~> Stopped

\* Every shutdown() that was started is over.
ShutdownsOver(n) ==
    /\ \A k \in ShutdownCallers : sd[k] \in {"idle", "done"}
    /\ Cardinality({k \in ShutdownCallers : sd[k] = "done"}) = n

\* What a shutdown of the started agent leaves: the IPC server stopped, its
\* socket file unlinked, the store handle closed.
ShutDownState == ipc_srv = "closed" /\ ~sock /\ db = "closed"

\* C18: shutdown() run twice, from the signal handler's task and from the
\* finally block of run(), one after the other or interleaved at their
\* awaits, raises no error and leaves what one shutdown() of the started
\* agent leaves.
C18_ShutdownIsIdempotent ==
    /\ \A k \in ShutdownCallers : sd[k] # "error"
    /\ (ShutdownsOver(1) /\ sd["fin"] = "done") => ShutDownState
    /\ ShutdownsOver(2) => ShutDownState

\* The shutdown of the signal handler has stopped the server, unlinked the
\* socket file and closed the store; the one of the finally block has closed
\* the server once more and is about to unlink and to close again.
C18_Witness ==
    /\ sd["sig"] = "done"
    /\ ShutDownState
    /\ sd["fin"] = "ipc_wait"

\* A shutdown() of the agent whose watcher runs has returned.
ShutdownCompleted ==
    /\ \E k \in ShutdownCallers : sd[k] = "done"
    /\ ShutDownState
    /\ w_pc # "new"

\* C19: when an orderly shutdown has completed, no tailer of the watcher
\* holds an open file handle.
C19_ShutdownClosesTailers ==
    ShutdownCompleted => \A p \in DOMAIN tailers : tailers[p].fd # "open"

\* ------------------------------------------------------------------------
\* Claims about the IPC server
\* ------------------------------------------------------------------------

\* The entries of the log that are served lines.
Served == {i \in 1..Len(ipcLog) : ipcLog[i].act # "accept"}

\* The served lines that carry a request object.
ServedRequests == {i \in Served : ipcLog[i].line.json = "object"}

MethodOf(i) == Get(ipcLog[i].line.req, "method", None)

IdOf(i) == Get(ipcLog[i].line.req, "id", None)

\* C8: a request whose method is not in the handler table, a request
\* without a method included, is answered with error -32601 "Method not
\* found" and the request's id, and no handler is invoked.
C8_UnknownMethodIsAnswered ==
    \A i \in ServedRequests :
        MethodOf(i) \notin HandlerNames =>
            /\ ipcLog[i].act = "reply"
            /\ ipcLog[i].response =
                   [jsonrpc |-> "2.0",
                    error |-> [code |-> -32601, message |-> "Method not found"],
                    id |-> IdOf(i)]
            /\ ipcLog[i].called = None

\* The step serves the line at the head of c's inbox.
ServesHeadOf(c) ==
    /\ conns[c].state = "open"
    /\ conns[c].inbox # <<>>
    /\ Len(ipcLog') = Len(ipcLog) + 1
    /\ ipcLog'[Len(ipcLog')].act # "accept"
    /\ ipcLog'[Len(ipcLog')].conn = c

\* C9: serving a malformed line (not JSON, or JSON that is no object)
\* closes the connection it came on and nothing else: the server keeps
\* accepting and every other connection is left as it was.
C9_MalformedLineClosesOnlyItsConnection ==
    [][\A c \in ConnIds :
          (ServesHeadOf(c) /\ Head(conns[c].inbox).json # "object") =>
              /\ conns'[c].state = "closed"
              /\ ipc_srv = "listening" /\ ipc_srv' = "listening"
              /\ \A d \in ConnIds \ {c} : conns'[d] = conns[d]]_vars

\* A malformed line closed its connection while another connection was open
\* with a line to serve, and a connection was accepted afterwards.
C9_Witness ==
    \E i \in Served :
        /\ ipcLog[i].line.json # "object"
        /\ ipcLog[i].connAfter = "closed"
        /\ \E j \in (i + 1)..Len(ipcLog) : ipcLog[j].act = "accept"
        /\ \E k \in (i + 1)..Len(ipcLog) :
               ipcLog[k].act = "reply" /\ ipcLog[k].conn # ipcLog[i].conn

\* C10: when the handler of a known method raises, the response is error
\* -32000 with the exception's message and the request's id, the
\* connection stays open and the server keeps accepting.
C10_HandlerErrorIsAnswered ==
    \A i \in ServedRequests :
        (MethodOf(i) \in HandlerNames /\ ipcLog[i].outcome.raised) =>
            /\ ipcLog[i].act = "reply"
            /\ ipcLog[i].response =
                   [jsonrpc |-> "2.0",
                    error |-> [code |-> -32000, message |-> ipcLog[i].outcome.message],
                    id |-> IdOf(i)]
            /\ ipcLog[i].connAfter = "open"
            /\ ipcLog[i].srvAfter = "listening"

\* A handler raised, and the same connection was served again afterwards.
C10_Witness ==
    \E i \in ServedRequests :
        /\ MethodOf(i) \in HandlerNames
        /\ ipcLog[i].outcome.raised
        /\ \E j \in (i + 1)..Len(ipcLog) :
               ipcLog[j].act = "reply" /\ ipcLog[j].conn = ipcLog[i].conn

\* ------------------------------------------------------------------------
\* Claims about the threat store
\* ------------------------------------------------------------------------

\* The created_at values of a sequence of threats never increase.
NonIncreasing(ts) ==
    \A i, j \in 1..Len(ts) : i < j => ts[i].created_at >= ts[j].created_at

\* C11: get_threats(n) returns at most n threats (none for an n below 1),
\* and the created_at values of what it returns are non-increasing.
C11_GetThreatsBoundedAndOrdered ==
    st_last.op = "get_threats" =>
        /\ (Len(st_last.result) <= st_last.arg \/ st_last.result = <<>>)
        /\ NonIncreasing(st_last.result)

\* C12: save_threat(T) for a T whose id is new, followed at once by
\* get_threats(1), returns exactly T, equal on every column.
C12_SaveThenGetReturnsIt ==
    (st_last.op = "get_threats" /\ st_last.arg = 1 /\ st_last.saved # <<>>) =>
        st_last.result = st_last.saved

\* The ids of the rows of a table are pairwise distinct.
DistinctIds(rows) ==
    \A i, j \in 1..Len(rows) : i # j => rows[i].id # rows[j].id

\* C13: save_threat and save_action with an id that the table holds
\* already fail and leave the table as it was; the ids of the stored
\* threats, and of the stored actions, are pairwise distinct.
C13_DuplicateIdIsRejected ==
    /\ (st_last.op \in {"save_threat", "save_action"} /\ st_last.conflict) =>
           (~st_last.ok /\ st_last.after = st_last.before)
    /\ DistinctIds(stored)
    /\ DistinctIds(actions)

\* A save_threat with a stored id was refused, with a full table of
\* threats and with an action stored.
C13_Witness ==
    /\ st_last.op = "save_threat"
    /\ st_last.conflict
    /\ Len(stored) > 0
    /\ Len(actions) > 0

\* ------------------------------------------------------------------------
\* Claims about the rules the engine holds
\* ------------------------------------------------------------------------

\* C21: every Rule the engine holds after load_rules has threshold >= 1 and
\* window > 0, whatever aggregation values the rule files contain.
C21_RulesHavePositiveAggregation ==
    r_loaded =>
        \A i \in 1..Len(rules) : rules[i].threshold >= 1 /\ rules[i].window > 0

\* The rules, in load order, that are for the source of the event and have a
\* pattern that finds a match in its raw line.
EligibleMatches(event) ==
    {i \in 1..Len(rules) : RuleMatches(rules[i], event)}

\* The position of the rule with the id in the load order, 0 if not loaded.
LoadedAt(id) ==
    IF \E i \in 1..Len(rules) : rules[i].id = id
    THEN CHOOSE i \in 1..Len(rules) : rules[i].id = id
    ELSE 0

\* C22: evaluate returns the Threat of the rule that is the earliest, in
\* load order, among the rules whose source is "any" or the event's and that
\* have a pattern matching event.raw: one Threat, however many rules match;
\* it returns nothing when no such rule exists.
C22_FirstEligibleRuleWins ==
    lastEvent # NoEvent =>
        IF EligibleMatches(lastEvent) = {}
        THEN lastResult = NoThreat
        ELSE /\ lastResult # NoThreat
             /\ LET first == CHOOSE i \in EligibleMatches(lastEvent) :
                                 \A j \in EligibleMatches(lastEvent) : i <= j
                IN /\ lastResult.rule_id = rules[first].id
                   /\ lastResult.severity = rules[first].severity
                   /\ lastResult.source = lastEvent.source
                   /\ lastResult.raw_log = lastEvent.raw
                   /\ matchLog # <<>>
                   /\ matchLog[Len(matchLog)].rule = first

\* An event that two rules match has yielded the Threat of the one loaded
\* first, the other being the first in the rule files' usual order; an ssh
\* event has yielded the Threat of ssh-bf although the nginx rule, whose
\* pattern matches its line too, was loaded before; and the last event,
\* which only that nginx rule's pattern matches, is no nginx event and has
\* yielded nothing.
C22_Witness ==
    /\ LoadedAt("web-any") < LoadedAt("ssh-bf")
    /\ LoadedAt("web-any") < LoadedAt("admin")
    /\ \E i \in 1..Len(matchLog) :
          /\ matchLog[i].event.raw = "GET /admin"
          /\ Cardinality(EligibleMatches(matchLog[i].event)) = 2
          /\ rules[matchLog[i].rule].id = "web-any"
    /\ \E i \in 1..Len(matchLog) :
          /\ matchLog[i].event.source = "ssh"
          /\ rules[matchLog[i].rule].id = "ssh-bf"
    /\ lastEvent.source = "generic"
    /\ lastEvent.raw \in PatAnyIp.hits
    /\ lastResult = NoThreat

\* ------------------------------------------------------------------------
\* Claims about the attacker_ip of a Threat
\* ------------------------------------------------------------------------

\* The four values evaluate consults for the match of entry i of the log, in
\* the order of the claim; None where the capture or the key is missing.
Consulted(i) ==
    LET rule == rules[matchLog[i].rule]
        event == matchLog[i].event
        k == CHOOSE k \in 1..Len(rule.patterns) :
                 /\ event.raw \in rule.patterns[k].hits
                 /\ \A j \in 1..(k - 1) : event.raw \notin rule.patterns[j].hits
        groups == rule.patterns[k].groups
    IN << IF "attacker_ip" \in DOMAIN groups THEN groups["attacker_ip"] ELSE None,
          IF "ip" \in DOMAIN groups THEN groups["ip"] ELSE None,
          IF "ip" \in DOMAIN event.data THEN event.data["ip"] ELSE None,
          IF "remote_addr" \in DOMAIN event.data THEN event.data["remote_addr"] ELSE None >>

\* The first of the values that satisfies Ok, None if none does.
FirstOf(values, Ok(_)) ==
    IF \E n \in 1..Len(values) : Ok(values[n])
    THEN values[CHOOSE n \in 1..Len(values) :
                    Ok(values[n]) /\ \A m \in 1..(n - 1) : ~Ok(values[m])]
    ELSE None

IsPresent(v) == v # None

IsNonEmpty(v) == v # None /\ v # ""

\* C23, as claimed: the attacker_ip of a Threat is the first value present
\* among the capture attacker_ip, the capture ip, event.data.ip and
\* event.data.remote_addr, and is absent only if none of them is present.
C23_FirstPresentValue ==
    \A i \in 1..Len(matchLog) :
        matchLog[i].ip = FirstOf(Consulted(i), IsPresent)

\* C23, amended: the attacker_ip of a Threat is the first non-empty value
\* among the four, in that order; it is absent or the empty string only if
\* none of the four is non-empty.
C23_FirstNonEmptyValue ==
    /\ \A i \in 1..Len(matchLog) :
          IF \E n \in 1..4 : IsNonEmpty(Consulted(i)[n])
          THEN matchLog[i].ip = FirstOf(Consulted(i), IsNonEmpty)
          ELSE matchLog[i].ip \in {None, ""}
    /\ lastResult # NoThreat =>
          /\ matchLog # <<>>
          /\ lastResult.attacker_ip = matchLog[Len(matchLog)].ip

\* A match whose capture attacker_ip is empty has taken the address from
\* event.data.remote_addr, and a match without captures has taken it from
\* event.data.ip.
C23_Witness ==
    /\ \E i \in 1..Len(matchLog) :
          /\ Consulted(i)[1] = ""
          /\ Consulted(i)[4] # None
          /\ matchLog[i].ip = Consulted(i)[4]
    /\ \E i \in 1..Len(matchLog) :
          /\ Consulted(i)[1] = None /\ Consulted(i)[2] = None
          /\ matchLog[i].ip = Consulted(i)[3]
          /\ matchLog[i].ip # None
    /\ lastResult # NoThreat

\* ------------------------------------------------------------------------
\* Claims about the parser of a source path
\* ------------------------------------------------------------------------

\* The path has the name somewhere in it: it is a prefix, the name, a suffix.
HasName(name, path) ==
    \E i \in 0..Len(path) :
        /\ i + Len(name) <= Len(path)
        /\ \A k \in 1..Len(name) : path[i + k] = name[k]

\* C24: a parser is always selected: the nginx parser if and only if the
\* path contains "nginx"; the ssh parser if and only if it does not and
\* contains "auth.log" or "secure"; the generic parser if and only if it
\* contains none of the three.
C24_ParserIsAFunctionOfThePath ==
    gp_parser # None =>
        /\ gp_parser \in {"NginxParser", "SSHParser", "GenericParser"}
        /\ gp_parser = "NginxParser" <=> HasName(StrNginx, gp_path)
        /\ gp_parser = "SSHParser" <=>
              /\ ~HasName(StrNginx, gp_path)
              /\ HasName(StrAuthLog, gp_path) \/ HasName(StrSecure, gp_path)
        /\ gp_parser = "GenericParser" <=>
              /\ ~HasName(StrNginx, gp_path)
              /\ ~HasName(StrAuthLog, gp_path)
              /\ ~HasName(StrSecure, gp_path)

\* A path with both "nginx" and "secure" in it, "secure" first, has got the
\* nginx parser.
C24_Witness ==
    /\ gp_path = <<"/">> \o StrSecure \o StrNginx
    /\ gp_parser = "NginxParser"

\* ------------------------------------------------------------------------
\* Claims about the responses of one connection
\* ------------------------------------------------------------------------

\* The lines the server has read from connection c, in the order it read
\* them, each with what it did.
HandledOn(c) ==
    SelectSeq(ipcLog, LAMBDA e : e.conn = c /\ e.act \in {"reply", "close"})

\* The line is a request: a JSON object whose method is a string.
WellFormed(line) ==
    /\ line.json = "object"
    /\ "method" \in DOMAIN line.req
    /\ line.req.method \notin Unhashable

\* C25: on one connection every well-formed request line the server has
\* received has got one response line with the id of the request, and the
\* response lines stand in the order the requests were received in.
C25_OneResponsePerRequestInOrder ==
    \A c \in ConnIds :
        LET handled == HandledOn(c)
            answered == SelectSeq(handled, LAMBDA e : e.act = "reply")
        IN /\ \A i \in 1..Len(handled) :
                 WellFormed(handled[i].line) => handled[i].act = "reply"
           /\ Len(conns[c].outbox) = Len(answered)
           /\ \A i \in 1..Len(answered) :
                 /\ conns[c].outbox[i] = answered[i].response
                 /\ conns[c].outbox[i].id = Get(answered[i].line.req, "id", None)

\* A connection has received two well-formed requests with different ids
\* and has answered both.
C25_Witness ==
    \E c \in ConnIds :
        /\ Len(HandledOn(c)) = 2
        /\ \A i \in 1..2 : WellFormed(HandledOn(c)[i].line)
        /\ Len(conns[c].outbox) = 2
        /\ conns[c].outbox[1].id # conns[c].outbox[2].id

\* ------------------------------------------------------------------------
\* Claims about what the IPC handlers do to the shared state
\* ------------------------------------------------------------------------

\* The set of the elements of a list.
Range(seq) == {seq[i] : i \in 1..Len(seq)}

\* The step is the handling of a request by the handler of the name: the
\* log of the server has one more entry, for a call of that handler.
HandlerStep(name) ==
    /\ Len(ipcLog') = Len(ipcLog) + 1
    /\ ipcLog'[Len(ipcLog')].act \in {"reply", "close"}
    /\ ipcLog'[Len(ipcLog')].called = name

\* The step leaves the watcher's tailers and the store as they were.
SharedStateKept ==
    /\ tailers' = tailers
    /\ order' = order
    /\ stored' = stored
    /\ actions' = actions
    /\ db' = db

\* The response of the step lists the paths registered in the watcher, each
\* once.
StatusNamesTheTailers ==
    LET reply == ipcLog'[Len(ipcLog')].response
    IN /\ Range(reply.result.monitored_files) = DOMAIN tailers
       /\ Len(reply.result.monitored_files) = Cardinality(DOMAIN tailers)

\* C26: the handling of a status or threats request leaves the tailer map
\* of the watcher and the tables of the store as they were, and the
\* monitored_files that status returns are the paths registered in the
\* watcher when it is called.
C26_HandlersReadOnly ==
    [][((HandlerStep("status") \/ HandlerStep("threats")) => SharedStateKept)
       /\ (HandlerStep("status") => StatusNamesTheTailers)]_vars

\* With two paths registered and a Threat in the store, a status request
\* and a threats request have been answered, the latter with that Threat.
C26_Witness ==
    /\ DOMAIN tailers = Paths
    /\ stored # <<>>
    /\ \E i, j \in 1..Len(ipcLog) :
          /\ ipcLog[i].act = "reply" /\ ipcLog[i].called = "status"
          /\ Len(ipcLog[i].response.result.monitored_files) = 2
          /\ ipcLog[j].act = "reply" /\ ipcLog[j].called = "threats"
          /\ ~ipcLog[j].outcome.raised
          /\ Len(ipcLog[j].response.result.threats) = 1

\* ------------------------------------------------------------------------
\* Claims about the passes of LogWatcher.watch
\* ------------------------------------------------------------------------

\* A pass of watch is over: watch sleeps or is about to read the first
\* tailer again, or a read has raised out of the pass.
PassIsOver ==
    \/ /\ w_idx = 1
       /\ w_pc \in {"enter", "sleep"}
       /\ polled # <<>> \/ order = <<>>
    \/ w_pc = "raised"

\* The step ends a pass: the read of the last tailer returns.
PassEnds ==
    /\ w_pc \in {"enter", "loop"}
    /\ w_idx = Len(order)
    /\ w_idx' = 1
    /\ w_pc' \in {"enter", "sleep"}
    /\ w_pc' # w_pc \/ w_idx' # w_idx

\* C27: in each pass of watch every registered tailer is read once, and
\* watch sleeps before the next pass if and only if no event was yielded in
\* the pass.
C27_EveryTailerPolledAndSleepIffIdle ==
    [][(PassIsOver' => polled' = order')
       /\ (PassEnds => (w_pc' = "sleep" <=> ~produced'))]_vars

\* ------------------------------------------------------------------------
\* Claims about the store and the shutdown
\* ------------------------------------------------------------------------

\* The threats handler has called get_threats on a handle that was closed.
GetThreatsAfterClose ==
    \E i \in 1..Len(ipcLog) :
        /\ ipcLog[i].act = "reply"
        /\ ipcLog[i].called = "threats"
        /\ ipcLog[i].outcome.raised
        /\ ipcLog[i].outcome.message = "no active connection"

\* C28, for a shutdown that found the IPC server started, that is, an
\* agent in its main loop: the store is not closed while run() is inside
\* save_threat, whose statements then run on the closed handle, and the
\* threats handler does not call get_threats after the store was closed.
C28_NoStoreCallAfterClose ==
    ipc_srv = "closed" =>
        /\ db = "closed" => a_pc # "saving"
        /\ ~GetThreatsAfterClose

\* ------------------------------------------------------------------------
\* Claims about the handle of a tailer
\* ------------------------------------------------------------------------

\* C29: whatever the writers do between the polls, a tailer holds a closed
\* handle only between the close and the reopen of a detected rotation: a
\* reopen that finds no file leaves the tailer without a handle, and no read
\* is made on a closed handle.
C29_NoReadOnClosedHandle ==
    \A p \in DOMAIN tailers :
        tailers[p].fd = "closed" => (w_pc = "reopen" /\ order[w_idx] = p)

====
